---- MODULE Spec2Model ----
(***************************************************************************)
(* A model of the Spec3 racing chatbot: the standalone server              *)
(* (src/main.py) and the serverless handler                                *)
(* (src/lambda-functions/chatbot-lambda/index.py).                         *)
(*                                                                         *)
(* Representation of Python values.                                        *)
(*   A Python str is a Text: a sequence of string fragments whose          *)
(*   concatenation is the str.  A user message is a Text whose fragments   *)
(*   are single characters, so that `word in message` is a real substring  *)
(*   search.  Literal pieces of the code's templates are one fragment      *)
(*   each; a fragment made of whitespace only is listed in Whitespace.     *)
(*   Values that come out of json.loads are tagged records (JNull, JNum,   *)
(*   JStr, JArr, JObj); an object keeps its keys in order, like a dict.    *)
(*   An operation that can raise returns Ok(v) or Err(str(e)).             *)
(***************************************************************************)
EXTENDS Integers, Sequences, FiniteSets, TLC

\* ---------------------------------------------------------------- bounds
\* A message is the concatenation of at most MaxWords fragments of Fragments.
MaxWords == 2

\* ------------------------------------------------------- Python values
JNull == [t |-> "null"]
JNum(n) == [t |-> "num", n |-> n]
JStr(s) == [t |-> "str", s |-> s]
JArr(a) == [t |-> "arr", a |-> a]
JObj(o) == [t |-> "obj", o |-> o]
KV(k, v) == [k |-> k, v |-> v]

Ok(v) == [ok |-> TRUE, v |-> v, exc |-> <<>>]
Err(e) == [ok |-> FALSE, v |-> JNull, exc |-> e]

IsText(v) == v.t = "str"

HasKey(o, k) == \E i \in 1..Len(o) : o[i].k = k
Lookup(o, k) == o[CHOOSE i \in 1..Len(o) : o[i].k = k].v

\* v[k] for a str key k.
GetKey(v, k) ==
    CASE v.t = "obj" -> IF HasKey(v.o, k) THEN Ok(Lookup(v.o, k))
                        ELSE Err(<<"'", k, "'">>)
      [] v.t = "arr" -> Err(<<"list indices must be integers or slices, not str">>)
      [] v.t = "str" -> Err(<<"string indices must be integers, not 'str'">>)
      [] v.t = "num" -> Err(<<"'int' object is not subscriptable">>)
      [] OTHER       -> Err(<<"'NoneType' object is not subscriptable">>)

\* v[i] for an int index i >= 0.
GetIndex(v, i) ==
    CASE v.t = "arr" -> IF i < Len(v.a) THEN Ok(v.a[i + 1])
                        ELSE Err(<<"list index out of range">>)
      [] v.t = "str" -> IF i < Len(v.s) THEN Ok(JStr(<<v.s[i + 1]>>))
                        ELSE Err(<<"string index out of range">>)
      [] v.t = "obj" -> Err(<<ToString(i)>>)
      [] v.t = "num" -> Err(<<"'int' object is not subscriptable">>)
      [] OTHER       -> Err(<<"'NoneType' object is not subscriptable">>)

\* x in text, for two str values (substring search).
In(word, text) ==
    \E i \in 0..(Len(text) - Len(word)) : SubSeq(text, i + 1, i + Len(word)) = word

\* k in v, for a str k.
Contains(k, v) ==
    CASE v.t = "obj" -> Ok(HasKey(v.o, k))
      [] v.t = "arr" -> Ok(\E i \in 1..Len(v.a) : v.a[i] = JStr(<<k>>))
      [] v.t = "str" -> Ok(In(<<k>>, v.s))
      [] v.t = "num" -> Err(<<"argument of type 'int' is not iterable">>)
      [] OTHER       -> Err(<<"argument of type 'NoneType' is not iterable">>)

\* len(v)
PyLen(v) ==
    CASE v.t = "obj" -> Ok(Len(v.o))
      [] v.t = "arr" -> Ok(Len(v.a))
      [] v.t = "str" -> Ok(Len(v.s))
      [] v.t = "num" -> Err(<<"object of type 'int' has no len()">>)
      [] OTHER       -> Err(<<"object of type 'NoneType' has no len()">>)

RECURSIVE PyRepr(_)
RECURSIVE ReprItems(_, _)
RECURSIVE ReprPairs(_, _)
\* repr(v)
PyRepr(v) ==
    CASE v.t = "str" -> <<"'">> \o v.s \o <<"'">>
      [] v.t = "num" -> <<ToString(v.n)>>
      [] v.t = "arr" -> <<"[">> \o ReprItems(v.a, 1) \o <<"]">>
      [] v.t = "obj" -> <<"{">> \o ReprPairs(v.o, 1) \o <<"}">>
      [] OTHER       -> <<"None">>
ReprItems(a, i) ==
    IF i > Len(a) THEN <<>>
    ELSE (IF i > 1 THEN <<", ">> ELSE <<>>) \o PyRepr(a[i]) \o ReprItems(a, i + 1)
ReprPairs(o, i) ==
    IF i > Len(o) THEN <<>>
    ELSE (IF i > 1 THEN <<", ">> ELSE <<>>) \o <<"'", o[i].k, "'", ": ">>
         \o PyRepr(o[i].v) \o ReprPairs(o, i + 1)

\* str(v), also what an f-string does to {v}
PyStr(v) == IF v.t = "str" THEN v.s ELSE PyRepr(v)

\* text.strip(): leading and trailing whitespace removed.
Whitespace == {" ", "\n", "\n            "}
RECURSIVE LStrip(_)
LStrip(s) == IF s # <<>> /\ Head(s) \in Whitespace THEN LStrip(Tail(s)) ELSE s
RECURSIVE RStrip(_)
RStrip(s) == IF s # <<>> /\ s[Len(s)] \in Whitespace
             THEN RStrip(SubSeq(s, 1, Len(s) - 1)) ELSE s
Strip(s) == RStrip(LStrip(s))

\* text.lower(), character by character.
UpperCase == <<"A","B","C","D","E","F","G","H","I","J","K","L","M",
               "N","O","P","Q","R","S","T","U","V","W","X","Y","Z">>
LowerCase == <<"a","b","c","d","e","f","g","h","i","j","k","l","m",
               "n","o","p","q","r","s","t","u","v","w","x","y","z">>
LowerChar(c) == IF \E i \in 1..26 : UpperCase[i] = c
                THEN LowerCase[CHOOSE i \in 1..26 : UpperCase[i] = c]
                ELSE c
Lower(s) == [i \in 1..Len(s) |-> LowerChar(s[i])]

\* ============================================================ src/main.py

\* ------------------------------------------------ the query classifier
rules_keywords ==
    <<<<"r","u","l","e","b","o","o","k">>,
      <<"r","e","g","u","l","a","t","i","o","n">>,
      <<"l","e","g","a","l">>,
      <<"a","l","l","o","w","e","d">>,
      <<"r","e","q","u","i","r","e","m","e","n","t">>,
      <<"s","p","e","c">>,
      <<"r","u","l","e">>>>
dynamic_keywords ==
    <<<<"p","a","r","t">>,
      <<"p","r","i","c","e">>,
      <<"s","c","h","e","d","u","l","e">>,
      <<"r","a","c","e">>,
      <<"e","v","e","n","t">>,
      <<"u","p","c","o","m","i","n","g">>,
      <<"c","o","s","t">>>>
hybrid_keywords ==
    <<<<"b","u","i","l","d">>,
      <<"c","a","r">>,
      <<"s","e","t","u","p">>,
      <<"r","e","c","o","m","m","e","n","d">>>>

\* any(word in text for word in words)
AnyIn(words, text) == \E k \in 1..Len(words) : In(words[k], text)

\* The classifier with the rules list checked before the hybrid list.
classify_rules_first(msg) ==
    LET message_lower == Lower(msg) IN
    IF AnyIn(rules_keywords, message_lower) THEN "rules"
    ELSE IF AnyIn(hybrid_keywords, message_lower) THEN "hybrid"
    ELSE IF AnyIn(dynamic_keywords, message_lower) THEN "parts_or_schedule"
    ELSE "general"

_classify_query(msg) ==
    LET message_lower == Lower(msg) IN
    IF AnyIn(hybrid_keywords, message_lower) THEN "hybrid"
    ELSE IF AnyIn(rules_keywords, message_lower) THEN "rules"
    ELSE IF AnyIn(dynamic_keywords, message_lower) THEN "parts_or_schedule"
    ELSE "general"

\* ---------------------------------------------------- the inputs drawn
\* Pieces of messages: a word of no list, a separator, keywords of each list
\* in either case, and "ca", which completes to "car" before "Rule" or "race".
Fragments ==
    { <<"H","e","l","l","o">>, <<" ">>, <<"b","u","i","l","d">>, <<"C","A","R">>,
      <<"R","u","l","e">>, <<"r","a","c","e">>, <<"c","a">> }

RECURSIVE MessagesOf(_)
MessagesOf(n) ==
    IF n = 0 THEN {<<>>}
    ELSE LET shorter == MessagesOf(n - 1) IN
         shorter \cup {m \o f : m \in shorter, f \in Fragments}
Messages == MessagesOf(MaxWords)

SessionIds == {<<"default">>, <<"s-42">>}

\* ------------------------------------------------ the remote providers
\* What one remote call can do: raise, or hand back a body that json.loads
\* rejects, or a body that decodes to val.
Reply(raises, exc, valid, val) ==
    [raises |-> raises, exc |-> exc, valid |-> valid, val |-> val]
Raised(e) == Reply(TRUE, e, FALSE, JNull)
BadJson == Reply(FALSE, <<>>, FALSE, JNull)
Body(v) == Reply(FALSE, <<>>, TRUE, v)

\* {"content": [{"type": "text", "text": text}]}
ClaudeBody(text) ==
    JObj(<<KV("content",
              JArr(<<JObj(<<KV("type", JStr(<<"text">>)), KV("text", text)>>)>>))>>)

AnswerTexts == {<<"Slicks are not allowed.">>, <<>>}

ModelReplies ==
    {Raised(<<"ThrottlingException">>), BadJson}
    \cup {Body(ClaudeBody(JStr(a))) : a \in AnswerTexts}
    \cup {Body(ClaudeBody(JNull)), Body(ClaudeBody(JNum(7)))}
    \cup {Body(JObj(<<>>)),
          Body(JObj(<<KV("content", JArr(<<>>))>>)),
          Body(JObj(<<KV("content", JArr(<<JObj(<<>>)>>))>>)),
          Body(JObj(<<KV("content", JStr(<<"a", "b">>))>>)),
          Body(JObj(<<KV("completion", JStr(<<"Use slicks.">>))>>)),
          Body(JObj(<<KV("content", JArr(<<>>)),
                      KV("completion", JNum(3))>>)),
          Body(JObj(<<KV("message", JStr(<<"busy">>))>>)),
          Body(JArr(<<JStr(<<"x">>)>>)),
          Body(JNum(5)),
          Body(JNull)}

\* json.loads(response['body'].read()) around the call that produced reply
ReadJson(rep) ==
    IF rep.raises THEN Err(rep.exc)
    ELSE IF ~rep.valid THEN Err(<<"Expecting value: line 1 column 1 (char 0)">>)
    ELSE Ok(rep.val)

\* body['content'][0]['text']
ContentText(body) ==
    LET c == GetKey(body, "content") IN
    IF ~c.ok THEN c
    ELSE LET e == GetIndex(c.v, 0) IN
         IF ~e.ok THEN e ELSE GetKey(e.v, "text")

ModelId == <<"anthropic.claude-3-sonnet-20240229-v1:0">>
RulesMaxTokens == 1000
GeneralMaxTokens == 500
NoCall == [modelId |-> <<>>, max_tokens |-> 0, prompt |-> <<>>]
NoReply == Reply(FALSE, <<"no call has returned">>, FALSE, JNull)

\* The invoke_model request of each querier.
RulesCall(msg) ==
    [modelId |-> ModelId, max_tokens |-> RulesMaxTokens,
     prompt |-> <<"Based on the Spec3 racing rulebook and documentation, please answer: ">>
                \o msg]
GeneralCall(msg) ==
    [modelId |-> ModelId, max_tokens |-> GeneralMaxTokens,
     prompt |-> <<"You are a helpful assistant for Spec3 racing. Answer this question: ">>
                \o msg]

\* ---------------------------------------------------- the queriers
ProviderResult(answer, sources) == [answer |-> answer, sources |-> sources]
NoResult == ProviderResult(JNull, <<>>)

\* _query_knowledge_base from the return of its invoke_model call on.
_query_knowledge_base(rep) ==
    LET result == ReadJson(rep)
        text   == IF result.ok THEN ContentText(result.v) ELSE result
    IN IF text.ok
       THEN ProviderResult(text.v, <<"Spec3 Rulebook">>)
       ELSE ProviderResult(JStr(<<"Error querying knowledge base: ">> \o text.exc), <<>>)

\* A dynamic-data querier that names no source.
mcp_server_no_sources(msg) ==
    ProviderResult(
        JStr(<<"MCP query result for: ">> \o msg
             \o <<" (placeholder - implement MCP client)">>),
        <<>>)

_query_mcp_server(msg) ==
    ProviderResult(
        JStr(<<"MCP query result for: ">> \o msg
             \o <<" (placeholder - implement MCP client)">>),
        <<"Google Sheets via MCP">>)

\* _handle_general_query from the return of its invoke_model call on.
_handle_general_query(rep) ==
    LET result == ReadJson(rep)
        text   == IF result.ok THEN ContentText(result.v) ELSE result
    IN IF text.ok
       THEN ProviderResult(text.v, <<"General Spec3 Knowledge">>)
       ELSE ProviderResult(
                JStr(<<"I'm here to help with Spec3 racing questions! Could you be more specific?">>),
                <<>>)

\* A synthesis that leaves a failed rules answer out.
synthesize_skipping_failed(rules_response, data_response) ==
    IF rules_response.sources = <<>> THEN data_response
    ELSE ProviderResult(
             JStr(<<"Based on the rules: ">> \o PyStr(rules_response.answer)
                  \o <<"\n            ", "\n            ", "Current data: ">>
                  \o PyStr(data_response.answer)),
             rules_response.sources \o data_response.sources)

\* _query_both_sources after asyncio.gather has handed back both results.
Synthesize(rules_response, data_response) ==
    IF "answer" \in DOMAIN rules_response /\ "answer" \in DOMAIN data_response
       /\ "sources" \in DOMAIN rules_response /\ "sources" \in DOMAIN data_response
    THEN LET combined_answer ==
                 <<"\n            ", "Based on the rules: ">>
                 \o PyStr(rules_response.answer)
                 \o <<"\n            ", "\n            ", "Current data: ">>
                 \o PyStr(data_response.answer)
                 \o <<"\n            ">>
         IN ProviderResult(JStr(Strip(combined_answer)),
                           rules_response.sources \o data_response.sources)
    ELSE ProviderResult(JStr(<<"Error querying multiple sources: ", "'answer'">>), <<>>)

\* ------------------------------------------------ the chat orchestrator
\* pydantic's check of a str field: version 1 turns a number into text,
\* version 2 rejects it; both reject None, lists and dicts.
PydanticVersions == {1, 2}
\* type(v).__name__
TypeName(v) ==
    CASE v.t = "str" -> "str"
      [] v.t = "num" -> "int"
      [] v.t = "arr" -> "list"
      [] v.t = "obj" -> "dict"
      [] OTHER       -> "NoneType"
\* Where pydantic 2's error texts send the reader, up to the error's type.
PydanticErrorsUrl == "https://errors.pydantic.dev/2.13/v/"
\* str() of the ValidationError raised for ChatResponse's field response.
StrFieldError(v, ver) ==
    <<"1 validation error for ChatResponse", "\n", "response", "\n  ">>
    \o (IF ver = 1
        THEN IF v.t = "null"
             THEN <<"none is not an allowed value (type=type_error.none.not_allowed)">>
             ELSE <<"str type expected (type=type_error.str)">>
        ELSE <<"Input should be a valid string [type=string_type, input_value=">>
             \o PyRepr(v) \o <<", input_type=", TypeName(v), "]",
                                "\n    For further information visit ",
                                PydanticErrorsUrl, "string_type">>)
StrField(v, ver) ==
    IF v.t = "str" THEN Ok(v)
    ELSE IF v.t = "num" /\ ver = 1 THEN Ok(JStr(PyStr(v)))
    ELSE Err(StrFieldError(v, ver))

NoChat == [kind |-> "none", response |-> <<>>, sources |-> <<>>,
           timestamp |-> <<>>, exc |-> <<>>]
DefaultAnswer == JStr(<<"Sorry, I could not find an answer.">>)

\* ChatResponse(response=response.get('answer', ...), sources=..., timestamp=...)
ChatResponseOf(resp, ver) ==
    LET answer  == IF "answer" \in DOMAIN resp THEN resp.answer ELSE DefaultAnswer
        sources == IF "sources" \in DOMAIN resp THEN resp.sources ELSE <<>>
        field   == StrField(answer, ver)
    IN IF field.ok
       THEN [kind |-> "ok", response |-> field.v.s, sources |-> sources,
             timestamp |-> <<"datetime.now().isoformat()">>, exc |-> <<>>]
       ELSE [kind |-> "raised", response |-> <<>>, sources |-> <<>>,
             timestamp |-> <<>>, exc |-> field.exc]

\* The request body as FastAPI reads it into ChatMessage: message is
\* required, session_id defaults to "default".
Request(hasMessage, msg, hasSession, sid) ==
    [hasMessage |-> hasMessage, message |-> msg, hasSession |-> hasSession,
     session_id |-> sid]
Requests ==
    {Request(TRUE, m, TRUE, <<"s-42">>) : m \in Messages}
    \cup {Request(TRUE, m, FALSE, <<>>) : m \in Messages}
    \cup {Request(FALSE, <<>>, TRUE, <<"s-42">>), Request(FALSE, <<>>, FALSE, <<>>)}
\* The request body as the dict FastAPI decodes it to.
RequestDict(r) ==
    JObj((IF r.hasMessage THEN <<KV("message", JStr(r.message))>> ELSE <<>>)
         \o (IF r.hasSession THEN <<KV("session_id", JStr(r.session_id))>> ELSE <<>>))
\* ChatMessage(**body): the model, or str() of the ValidationError raised
\* for a body without message.
ChatMessage(r, ver) ==
    IF ~r.hasMessage
    THEN Err(<<"1 validation error for ChatMessage", "\n", "message", "\n  ">>
             \o (IF ver = 1
                 THEN <<"field required (type=value_error.missing)">>
                 ELSE <<"Field required [type=missing, input_value=">>
                      \o PyRepr(RequestDict(r))
                      \o <<", input_type=dict]",
                           "\n    For further information visit ",
                           PydanticErrorsUrl, "missing">>))
    ELSE Ok([message |-> r.message,
             session_id |-> IF r.hasSession THEN r.session_id ELSE <<"default">>])
\* The detail of FastAPI's 422 answer to a body without message: a list of
\* one error, in the form of the installed pydantic.
RequestValidationDetail(r, ver) ==
    IF ver = 1
    THEN JArr(<<JObj(<<KV("loc", JArr(<<JStr(<<"body">>), JStr(<<"message">>)>>)),
                       KV("msg", JStr(<<"field required">>)),
                       KV("type", JStr(<<"value_error.missing">>))>>)>>)
    ELSE JArr(<<JObj(<<KV("type", JStr(<<"missing">>)),
                       KV("loc", JArr(<<JStr(<<"body">>), JStr(<<"message">>)>>)),
                       KV("msg", JStr(<<"Field required">>)),
                       KV("input", RequestDict(r))>>)>>)
\* The answer of POST /chat; detail is the text of an HTTPException, or the
\* error list of a 422 answer.
NoHttp == [status |-> 0, response |-> <<>>, sources |-> <<>>, detail |-> <<>>]

\* ============================ src/lambda-functions/chatbot-lambda/index.py

\* A Python str holding JSON text: either text json.loads rejects, or the
\* text of the value val (json.dumps makes one, json.loads reads it back).
JsonText(valid, val) == [t |-> "jsontext", valid |-> valid, val |-> val]
\* The characters json.dumps writes as an escape, each with its escape; a
\* text is cut so that each of them is a fragment of its own. json.dumps
\* (ensure_ascii) writes a non-ASCII character as \uXXXX; json.loads reads
\* the escapes back and takes a raw non-ASCII character as it is.
JsonEscapes ==
    << <<"\"", "\\\"">>, <<"\\", "\\\\">>, <<"é", "\\u00e9">> >>
EscapeFragment(f) ==
    IF \E i \in 1..Len(JsonEscapes) : JsonEscapes[i][1] = f
    THEN JsonEscapes[CHOOSE i \in 1..Len(JsonEscapes) : JsonEscapes[i][1] = f][2]
    ELSE f
UnescapeFragment(f) ==
    IF \E i \in 1..Len(JsonEscapes) : JsonEscapes[i][2] = f
    THEN JsonEscapes[CHOOSE i \in 1..Len(JsonEscapes) : JsonEscapes[i][2] = f][1]
    ELSE f
\* The value v with every str in it rewritten fragment by fragment; dict
\* keys, plain ASCII in this program, are left as they are.
RECURSIVE MapStrings(_, _)
MapStrings(v, escape) ==
    CASE v.t = "str" ->
             JStr([i \in 1..Len(v.s) |->
                      IF escape THEN EscapeFragment(v.s[i])
                      ELSE UnescapeFragment(v.s[i])])
      [] v.t = "arr" -> JArr([i \in 1..Len(v.a) |-> MapStrings(v.a[i], escape)])
      [] v.t = "obj" ->
             JObj([i \in 1..Len(v.o) |->
                      KV(v.o[i].k, MapStrings(v.o[i].v, escape))])
      [] OTHER -> v
\* json.dumps(v): the text of v, strings escaped
JsonDumps(v) == JsonText(TRUE, MapStrings(v, TRUE))
JsonLoads(b) ==
    IF b.t = "jsontext"
    THEN IF b.valid THEN Ok(MapStrings(b.val, FALSE))
         ELSE Err(<<"Expecting value: line 1 column 1 (char 0)">>)
    ELSE IF b.t = "null"
    THEN Err(<<"the JSON object must be str, bytes or bytearray, not NoneType">>)
    ELSE Err(<<"the JSON object must be str, bytes or bytearray, not dict">>)

\* bool(v)
Truthy(v) ==
    CASE v.t = "str" -> v.s # <<>>
      [] v.t = "num" -> v.n # 0
      [] v.t = "arr" -> v.a # <<>>
      [] v.t = "obj" -> v.o # <<>>
      [] OTHER       -> FALSE

\* A get that also gives the default for a key whose value is falsy.
dict_get_default_on_falsy(d, k, default) ==
    IF d.t = "obj"
    THEN Ok(IF HasKey(d.o, k) /\ Truthy(Lookup(d.o, k)) THEN Lookup(d.o, k)
            ELSE default)
    ELSE Err(<<"object has no attribute 'get'">>)

\* d.get(k, default) for a dict d; anything else has no get.
DictGet(d, k, default) ==
    IF d.t = "obj"
    THEN Ok(IF HasKey(d.o, k) THEN Lookup(d.o, k) ELSE default)
    ELSE IF d.t = "arr" THEN Err(<<"'list' object has no attribute 'get'">>)
    ELSE IF d.t = "str" THEN Err(<<"'str' object has no attribute 'get'">>)
    ELSE IF d.t = "num" THEN Err(<<"'int' object has no attribute 'get'">>)
    ELSE Err(<<"'NoneType' object has no attribute 'get'">>)

\* The Lambda event: a dict that may hold 'body' and 'messages'.
Event(hasBody, body, hasMessages, messages) ==
    [hasBody |-> hasBody, body |-> body, hasMessages |-> hasMessages,
     messages |-> messages]

MessageValues == {JStr(<<"Is a wing legal?">>), JStr(<<>>), JNum(5)}
\* session_id as written in the body's text: plain, with a raw non-ASCII
\* character, with escapes, empty, a number, null
SessionValues ==
    {JStr(<<"s-42">>), JStr(<<"caf", "é">>),
     JStr(<<"a", "\\\"", "b", "\\\\", "\\u00e9">>), JStr(<<>>), JNum(42), JNull}
BodyObjects ==
    {JObj(<<>>)}
    \cup {JObj(<<KV("message", m)>>) : m \in MessageValues}
    \cup {JObj(<<KV("session_id", x)>>) : x \in SessionValues}
    \cup {JObj(<<KV("message", m), KV("session_id", x)>>) :
             m \in MessageValues, x \in SessionValues}
Bodies ==
    {JNull, JsonText(FALSE, JNull), JsonText(TRUE, JArr(<<>>)), JObj(<<>>)}
    \cup {JsonText(TRUE, o) : o \in BodyObjects}
Events ==
    {Event(FALSE, JNull, hm, IF hm THEN JStr(<<"What tires?">>) ELSE JNull) :
        hm \in BOOLEAN}
    \cup {Event(TRUE, b, hm, IF hm THEN JStr(<<"What tires?">>) ELSE JNull) :
             b \in Bodies, hm \in BOOLEAN}

\* MODEL_ARN: a str cut into fragments so that each of 'arn:aws:bedrock:',
\* 'inference-profile', '/' and 'nova-premier' is a fragment where it occurs.
ModelArns ==
    { <<>>,
      <<"anthropic.claude-3-sonnet-20240229-v1:0">>,
      <<"us.amazon.", "nova-premier", "-v1:0">>,
      <<"arn:aws:bedrock:", "us-east-1:111122223333:", "inference-profile", "/",
        "us.anthropic.claude-3-sonnet-20240229-v1:0">>,
      <<"arn:aws:bedrock:", "us-east-1::foundation-model", "/",
        "anthropic.claude-3-sonnet-20240229-v1:0">>,
      <<"arn:aws:bedrock:", "us-east-1::foundation-model", "/",
        "amazon.", "nova-premier", "-v1:0">> }
KnowledgeBaseIds == {<<>>, <<"KB12345">>}
Envs == {[MODEL_ARN |-> a, KNOWLEDGE_BASE_ID |-> k] :
            a \in ModelArns, k \in KnowledgeBaseIds}

HasFragment(frag, text) == \E i \in 1..Len(text) : text[i] = frag
\* text.split('/')[-1]
RECURSIVE AfterLastSlash(_)
AfterLastSlash(text) ==
    IF HasFragment("/", text) THEN AfterLastSlash(Tail(text)) ELSE text

\* lines 123-132 (and 67-76): the model id taken from MODEL_ARN
ModelIdOf(model_arn) ==
    IF model_arn # <<>> /\ Head(model_arn) = "arn:aws:bedrock:"
    THEN IF HasFragment("inference-profile", model_arn)
         THEN <<"us.amazon.", "nova-premier", "-v1:0">>
         ELSE AfterLastSlash(model_arn)
    ELSE model_arn

IsNova(model_id) == HasFragment("nova-premier", model_id)

Apology(e) ==
    JStr(<<"I apologize, but I'm having trouble processing your request right now. Error: ">>
         \o e)

\* lines 178-183: the Nova Premier reply
NovaParse(response_body) ==
    LET hasContent == Contains("content", response_body) IN
    IF ~hasContent.ok THEN hasContent
    ELSE LET content == IF hasContent.v THEN GetKey(response_body, "content")
                        ELSE Ok(JNull)
             n == IF hasContent.v /\ content.ok THEN PyLen(content.v) ELSE Ok(0)
         IN IF ~content.ok THEN content
            ELSE IF ~n.ok THEN n
            ELSE IF hasContent.v /\ n.v > 0 THEN ContentText(response_body)
            ELSE LET hasCompletion == Contains("completion", response_body) IN
                 IF ~hasCompletion.ok THEN hasCompletion
                 ELSE IF hasCompletion.v THEN GetKey(response_body, "completion")
                 ELSE Ok(JStr(PyStr(response_body)))

\* fallback_response reading every reply as the Claude shape.
fallback_claude_shape_only(model_id, rep) ==
    LET response_body == ReadJson(rep)
        result == IF ~response_body.ok THEN response_body
                  ELSE ContentText(response_body.v)
    IN IF result.ok THEN result.v ELSE Apology(result.exc)

\* fallback_response from the return of its invoke_model call on
FallbackResult(model_id, rep) ==
    LET response_body == ReadJson(rep)
        result == IF ~response_body.ok THEN response_body
                  ELSE IF IsNova(model_id) THEN NovaParse(response_body.v)
                  ELSE ContentText(response_body.v)
    IN IF result.ok THEN result.v ELSE Apology(result.exc)

\* What retrieve_and_generate can do: raise, or hand back a response dict.
RagReplies ==
    {Raised(<<"ResourceNotFoundException">>),
     Body(JObj(<<KV("output", JObj(<<KV("text", JStr(<<"Wings are legal.">>))>>))>>)),
     Body(JObj(<<KV("output", JObj(<<>>))>>)),
     Body(JObj(<<>>))}
\* boto3 refuses an input text that is not a str before any request is sent.
RagOutcomes(msg) ==
    IF IsText(msg) THEN RagReplies ELSE {Raised(<<"Parameter validation failed">>)}

\* response['output']['text']
OutputText(rep) ==
    IF rep.raises THEN Err(rep.exc)
    ELSE LET output == GetKey(rep.val, "output") IN
         IF ~output.ok THEN output ELSE GetKey(output.v, "text")

NoLambdaCall == [op |-> "none", modelId |-> <<>>, format |-> "none"]
InvokeCall(model_id) ==
    [op |-> "invoke_model", modelId |-> model_id,
     format |-> IF IsNova(model_id) THEN "nova" ELSE "claude"]
RagCall(model_arn) ==
    [op |-> "retrieve_and_generate", modelId |-> model_arn, format |-> "none"]
NoOut == [statusCode |-> 0, body |-> JNull]

\* ------------------------------------------------------------ the state
VARIABLES
    req,             \* the body of the POST /chat request
    pydantic,        \* the installed pydantic's major version
    pc,              \* where the request is in chat_endpoint / process_message
    message,         \* process_message's arguments
    session_id,
    query_type,      \* the classifier's result
    invoked,         \* the queriers whose body has begun to run, in order
    call,            \* the invoke_model request in flight, or NoCall
    reply,           \* what the invoke_model call did, once it is over
    ready,           \* the event loop's queue of tasks ready to run
    running,         \* what holds the (single) thread: "main", "loop", "kb"
    kbTask,          \* the two tasks asyncio.gather makes of the coroutines
    mcpTask,
    rules_response,  \* _query_both_sources' locals
    data_response,
    response,        \* process_message's local: the provider result selected
    chat,            \* what process_message returned or raised
    http             \* what chat_endpoint answered

VARIABLES
    event,           \* the Lambda event
    env,             \* os.environ of the Lambda
    lpc,             \* where the invocation is in handler / process_message
    user_message,    \* handler's locals
    lsession,
    rag_calls,       \* retrieve_and_generate calls made
    fallback_calls,  \* fallback_response calls made
    lcall,           \* the remote call in flight, or NoLambdaCall
    lreply,          \* what fallback_response's invoke_model call did
    lresult,         \* what process_message returned
    lout             \* what handler returned

svars == <<req, pydantic, pc, message, session_id, query_type, invoked, call,
           reply,
           ready, running, kbTask, mcpTask, rules_response, data_response,
           response, chat, http>>
lvars == <<event, env, lpc, user_message, lsession, rag_calls, fallback_calls,
           lcall, lreply, lresult, lout>>
vars == <<svars, lvars>>

\* ------------------------------------------- the server's state machine
ServerIdle ==
    /\ message = <<>>
    /\ session_id = <<>>
    /\ query_type = "none"
    /\ invoked = <<>>
    /\ call = NoCall
    /\ reply = NoReply
    /\ ready = <<>>
    /\ running = "main"
    /\ kbTask = "none"
    /\ mcpTask = "none"
    /\ rules_response = NoResult
    /\ data_response = NoResult
    /\ response = NoResult
    /\ chat = NoChat
    /\ http = NoHttp

\* chat_endpoint is entered: FastAPI reads the body into a ChatMessage, and
\* answers 422 itself when it cannot.
ChatEndpoint ==
    /\ pc = "request"
    /\ LET m == ChatMessage(req, pydantic) IN
       IF m.ok
       THEN /\ message' = m.v.message
            /\ session_id' = m.v.session_id
            /\ pc' = "process"
            /\ http' = http
       ELSE /\ http' = [NoHttp EXCEPT !.status = 422, !.detail = RequestValidationDetail(req, pydantic)]
            /\ pc' = "done"
            /\ UNCHANGED <<message, session_id>>
    /\ UNCHANGED <<req, reply, pydantic, query_type, invoked, call, ready, running,
                   kbTask, mcpTask, rules_response, data_response, response, chat>>
    /\ UNCHANGED lvars

\* process_message, line 40
Classify ==
    /\ pc = "process"
    /\ query_type' = _classify_query(message)
    /\ pc' = "dispatch"
    /\ UNCHANGED <<req, reply, pydantic, message, session_id, invoked, call, ready,
                   running, kbTask, mcpTask, rules_response, data_response,
                   response, chat, http>>
    /\ UNCHANGED lvars

\* process_message, line 43: the rules querier runs inside the caller up to
\* its invoke_model call, which blocks the thread.
QueryRules ==
    /\ pc = "dispatch"
    /\ query_type = "rules"
    /\ invoked' = Append(invoked, "rules")
    /\ call' = RulesCall(message)
    /\ pc' = "await_model"
    /\ UNCHANGED <<req, reply, pydantic, message, session_id, query_type, ready,
                   running, kbTask, mcpTask, rules_response, data_response,
                   response, chat, http>>
    /\ UNCHANGED lvars

\* process_message, line 49
QueryGeneral ==
    /\ pc = "dispatch"
    /\ query_type = "general"
    /\ invoked' = Append(invoked, "general")
    /\ call' = GeneralCall(message)
    /\ pc' = "await_model"
    /\ UNCHANGED <<req, reply, pydantic, message, session_id, query_type, ready,
                   running, kbTask, mcpTask, rules_response, data_response,
                   response, chat, http>>
    /\ UNCHANGED lvars

\* process_message, line 45: the dynamic-data querier makes no remote call.
QueryMcp ==
    /\ pc = "dispatch"
    /\ query_type = "parts_or_schedule"
    /\ invoked' = Append(invoked, "mcp")
    /\ response' = _query_mcp_server(message)
    /\ pc' = "wrap"
    /\ UNCHANGED <<req, reply, pydantic, message, session_id, query_type, call, ready,
                   running, kbTask, mcpTask, rules_response, data_response,
                   chat, http>>
    /\ UNCHANGED lvars

\* The invoke_model call of the rules or general querier returns or raises,
\* and the querier returns its result to process_message.
ModelReturns ==
    /\ pc = "await_model"
    /\ \E r \in ModelReplies :
          /\ reply' = r
          /\ response' = IF query_type = "rules" THEN _query_knowledge_base(r)
                         ELSE _handle_general_query(r)
    /\ call' = NoCall
    /\ pc' = "wrap"
    /\ UNCHANGED <<req, pydantic, message, session_id, query_type, invoked,
                   ready, running, kbTask, mcpTask, rules_response,
                   data_response, chat, http>>
    /\ UNCHANGED lvars

\* process_message, line 47, and _query_both_sources up to its await:
\* the two coroutines are made (neither body runs yet), asyncio.gather
\* makes a task of each, in argument order, and the caller is suspended.
QueryBoth ==
    /\ pc = "dispatch"
    /\ query_type = "hybrid"
    /\ kbTask' = "scheduled"
    /\ mcpTask' = "scheduled"
    /\ ready' = <<"kb", "mcp">>
    /\ running' = "loop"
    /\ pc' = "gather"
    /\ UNCHANGED <<req, reply, pydantic, message, session_id, query_type, invoked,
                   call, rules_response, data_response, response, chat, http>>
    /\ UNCHANGED lvars

\* The event loop, free, runs the first ready task. The rules task runs to
\* its invoke_model call: a blocking call, so the task keeps the thread.
LoopRunKb ==
    /\ pc = "gather"
    /\ running = "loop"
    /\ ready # <<>>
    /\ Head(ready) = "kb"
    /\ ready' = Tail(ready)
    /\ running' = "kb"
    /\ kbTask' = "inflight"
    /\ invoked' = Append(invoked, "rules")
    /\ call' = RulesCall(message)
    /\ UNCHANGED <<req, reply, pydantic, pc, message, session_id, query_type, mcpTask,
                   rules_response, data_response, response, chat, http>>
    /\ UNCHANGED lvars

\* The rules task's invoke_model call returns or raises; the task finishes
\* and gives the thread back to the loop.
KbTaskReturns ==
    /\ pc = "gather"
    /\ running = "kb"
    /\ kbTask = "inflight"
    /\ \E r \in ModelReplies :
          /\ reply' = r
          /\ rules_response' = _query_knowledge_base(r)
    /\ call' = NoCall
    /\ kbTask' = "done"
    /\ running' = "loop"
    /\ UNCHANGED <<req, pydantic, pc, message, session_id, query_type, invoked,
                   ready, mcpTask, data_response, response, chat, http>>
    /\ UNCHANGED lvars

\* The event loop, free, runs the dynamic-data task: it never awaits, so it
\* runs from start to finish in one step of the loop.
LoopRunMcp ==
    /\ pc = "gather"
    /\ running = "loop"
    /\ ready # <<>>
    /\ Head(ready) = "mcp"
    /\ ready' = Tail(ready)
    /\ invoked' = Append(invoked, "mcp")
    /\ data_response' = _query_mcp_server(message)
    /\ mcpTask' = "done"
    /\ UNCHANGED <<req, reply, pydantic, pc, message, session_id, query_type, call,
                   running, kbTask, rules_response, response, chat, http>>
    /\ UNCHANGED lvars

\* Both tasks are done: gather's future resolves, _query_both_sources is
\* resumed, synthesizes and returns to process_message.
GatherResume ==
    /\ pc = "gather"
    /\ running = "loop"
    /\ kbTask = "done"
    /\ mcpTask = "done"
    /\ response' = Synthesize(rules_response, data_response)
    /\ running' = "main"
    /\ pc' = "wrap"
    /\ UNCHANGED <<req, reply, pydantic, message, session_id, query_type, invoked,
                   call, ready, kbTask, mcpTask, rules_response, data_response,
                   chat, http>>
    /\ UNCHANGED lvars

\* process_message, lines 51-55: the ChatResponse is built, or its
\* validation raises out of process_message.
Wrap ==
    /\ pc = "wrap"
    /\ chat' = ChatResponseOf(response, pydantic)
    /\ pc' = "respond"
    /\ UNCHANGED <<req, reply, pydantic, message, session_id, query_type, invoked,
                   call, ready, running, kbTask, mcpTask, rules_response,
                   data_response, response, http>>
    /\ UNCHANGED lvars

\* chat_endpoint, lines 191-195
EndpointAnswer(c) ==
    IF c.kind = "ok"
    THEN [status |-> 200, response |-> c.response, sources |-> c.sources,
          detail |-> <<>>]
    ELSE [status |-> 500, response |-> <<>>, sources |-> <<>>, detail |-> c.exc]

Respond ==
    /\ pc = "respond"
    /\ http' = EndpointAnswer(chat)
    /\ pc' = "done"
    /\ UNCHANGED <<req, reply, pydantic, message, session_id, query_type, invoked,
                   call, ready, running, kbTask, mcpTask, rules_response,
                   data_response, response, chat>>
    /\ UNCHANGED lvars

LambdaIdle ==
    /\ user_message = JNull
    /\ lsession = JNull
    /\ rag_calls = 0
    /\ fallback_calls = 0
    /\ lcall = NoLambdaCall
    /\ lreply = NoReply
    /\ lresult = JNull
    /\ lout = NoOut

\* No Lambda invocation is under way.
LambdaOff ==
    /\ event = Event(FALSE, JNull, FALSE, JNull)
    /\ env = [MODEL_ARN |-> <<>>, KNOWLEDGE_BASE_ID |-> <<>>]
    /\ lpc = "off"
    /\ LambdaIdle

Init ==
    /\ req \in Requests
    /\ pydantic \in PydanticVersions
    /\ pc = "request"
    /\ ServerIdle
    /\ LambdaOff

Next ==
    \/ ChatEndpoint
    \/ Classify
    \/ QueryRules
    \/ QueryGeneral
    \/ QueryMcp
    \/ ModelReturns
    \/ QueryBoth
    \/ LoopRunKb
    \/ KbTaskReturns
    \/ LoopRunMcp
    \/ GatherResume
    \/ Wrap
    \/ Respond

Spec == Init /\ [][Next]_vars

\* ------------------------------------------- the Lambda's state machine
\* handler, lines 19-25: the body, the message and the session id
HandlerInputs(ev) ==
    LET raw  == IF ev.hasBody THEN ev.body ELSE JsonText(TRUE, JObj(<<>>))
        body == JsonLoads(raw)
    IN IF ~body.ok THEN body
       ELSE LET msg == DictGet(body.v, "message", JStr(<<>>))
                sid == DictGet(body.v, "session_id", JStr(<<"default">>))
            IN IF ~msg.ok THEN msg
               ELSE Ok([user_message |-> IF ~Truthy(msg.v) /\ ev.hasMessages
                                         THEN ev.messages ELSE msg.v,
                        session_id |-> sid.v])

\* handler, lines 45-56
ErrorOut(e) ==
    [statusCode |-> 500, body |-> JsonDumps(JObj(<<KV("error", JStr(e))>>))]
\* handler, lines 32-44
SuccessOut(resp, sid) ==
    [statusCode |-> 200,
     body |-> JsonDumps(JObj(<<KV("response", resp), KV("session_id", sid)>>))]

\* handler up to its call of process_message, or to its except clause
Handler ==
    /\ lpc = "handler"
    /\ LET in == HandlerInputs(event) IN
       IF in.ok
       THEN /\ user_message' = in.v.user_message
            /\ lsession' = in.v.session_id
            /\ lpc' = "process"
            /\ lout' = lout
       ELSE /\ lout' = ErrorOut(in.exc)
            /\ lpc' = "done"
            /\ UNCHANGED <<user_message, lsession>>
    /\ UNCHANGED <<event, env, rag_calls, fallback_calls, lcall, lreply, lresult>>
    /\ UNCHANGED svars

\* process_message, lines 81-83: no knowledge base id, so fallback_response
\* is called; it runs up to its invoke_model call.
ProcessNoKb ==
    /\ lpc = "process"
    /\ env.KNOWLEDGE_BASE_ID = <<>>
    /\ fallback_calls' = fallback_calls + 1
    /\ lcall' = InvokeCall(ModelIdOf(env.MODEL_ARN))
    /\ lpc' = "fallback"
    /\ UNCHANGED <<event, env, user_message, lsession, rag_calls, lreply,
                   lresult, lout>>
    /\ UNCHANGED svars

\* process_message, line 86: retrieve_and_generate is called
ProcessRetrieve ==
    /\ lpc = "process"
    /\ env.KNOWLEDGE_BASE_ID # <<>>
    /\ rag_calls' = rag_calls + 1
    /\ lcall' = RagCall(env.MODEL_ARN)
    /\ lpc' = "retrieve"
    /\ UNCHANGED <<event, env, user_message, lsession, fallback_calls, lreply,
                   lresult, lout>>
    /\ UNCHANGED svars

\* retrieve_and_generate returns or raises: lines 109-110, or the except
\* clause of lines 111-115, which calls fallback_response.
RetrieveReturns ==
    /\ lpc = "retrieve"
    /\ \E r \in RagOutcomes(user_message) :
          LET text == OutputText(r) IN
          IF text.ok
          THEN /\ lresult' = text.v
               /\ lcall' = NoLambdaCall
               /\ lpc' = "respond"
               /\ fallback_calls' = fallback_calls
          ELSE /\ fallback_calls' = fallback_calls + 1
               /\ lcall' = InvokeCall(ModelIdOf(env.MODEL_ARN))
               /\ lpc' = "fallback"
               /\ lresult' = lresult
    /\ UNCHANGED <<event, env, user_message, lsession, rag_calls, lreply, lout>>
    /\ UNCHANGED svars

\* fallback_response's invoke_model call returns or raises; fallback_response
\* returns its result, and process_message returns it.
FallbackReturns ==
    /\ lpc = "fallback"
    /\ \E rep \in ModelReplies :
          /\ lreply' = rep
          /\ lresult' = FallbackResult(lcall.modelId, rep)
    /\ lcall' = NoLambdaCall
    /\ lpc' = "respond"
    /\ UNCHANGED <<event, env, user_message, lsession, rag_calls,
                   fallback_calls, lout>>
    /\ UNCHANGED svars

\* handler, lines 32-44
HandlerReturn ==
    /\ lpc = "respond"
    /\ lout' = SuccessOut(lresult, lsession)
    /\ lpc' = "done"
    /\ UNCHANGED <<event, env, user_message, lsession, rag_calls,
                   fallback_calls, lcall, lreply, lresult>>
    /\ UNCHANGED svars

\* No request is under way in the server.
ServerOff ==
    /\ req = Request(FALSE, <<>>, FALSE, <<>>)
    /\ pydantic = 2
    /\ pc = "off"
    /\ ServerIdle

LambdaInit ==
    /\ event \in Events
    /\ env \in Envs
    /\ lpc = "handler"
    /\ LambdaIdle
    /\ ServerOff

LambdaNext ==
    \/ Handler
    \/ ProcessNoKb
    \/ ProcessRetrieve
    \/ RetrieveReturns
    \/ FallbackReturns
    \/ HandlerReturn

LambdaSpec == LambdaInit /\ [][LambdaNext]_vars

\* ====================================================== the properties

\* word occurs in text at some position, letters compared without regard to
\* case (word is lower case, as all keywords are).
UpperOf(c) == IF \E i \in 1..26 : LowerCase[i] = c
              THEN UpperCase[CHOOSE i \in 1..26 : LowerCase[i] = c]
              ELSE c
Occurs(word, text) ==
    \E i \in 1..Len(text) :
        /\ i + Len(word) - 1 <= Len(text)
        /\ \A j \in 1..Len(word) : text[i + j - 1] \in {word[j], UpperOf(word[j])}
Mentions(words, text) == \E k \in 1..Len(words) : Occurs(words[k], text)

\* process_message has classified the message / has returned or raised
Classified == query_type # "none"
Returned == pc \in {"respond", "done"} /\ chat # NoChat
Intents == {"hybrid", "rules", "parts_or_schedule", "general"}

\* C1: the classifier returns exactly one intent, by first match in the
\* order hybrid -> rules -> dynamic -> general over the lower-cased message:
\* a hybrid keyword anywhere gives "hybrid" whatever else the message holds,
\* a rules keyword without a hybrid one gives "rules", dynamic keywords alone
\* give "parts_or_schedule", no keyword gives "general".
C1_ClassifyFirstMatch ==
    Classified =>
        /\ query_type \in Intents
        /\ Mentions(hybrid_keywords, message) => query_type = "hybrid"
        /\ (~Mentions(hybrid_keywords, message) /\ Mentions(rules_keywords, message))
              => query_type = "rules"
        /\ (~Mentions(hybrid_keywords, message) /\ ~Mentions(rules_keywords, message)
              /\ Mentions(dynamic_keywords, message))
              => query_type = "parts_or_schedule"
        /\ (~Mentions(hybrid_keywords, message) /\ ~Mentions(rules_keywords, message)
              /\ ~Mentions(dynamic_keywords, message))
              => query_type = "general"

\* A message holding a hybrid keyword together with a rules keyword, and a
\* capital letter, has been classified hybrid.
C1_Witness ==
    /\ Classified
    /\ query_type = "hybrid"
    /\ Mentions(rules_keywords, message)
    /\ \E i \in 1..Len(message) : message[i] \in {"C", "R"}

\* The reply let the querier extract content[0]['text'] (of whatever type).
Extractable(r) ==
    /\ ~r.raises
    /\ r.valid
    /\ \E x \in {JStr(a) : a \in AnswerTexts} \cup {JNull, JNum(7)} : r.val = ClaudeBody(x)
RulesFailed == reply # NoReply /\ ~Extractable(reply)

\* header, then all of body, occur in text one after the other
Follows(header, body, text) ==
    \E i \in 1..Len(text) :
        /\ text[i] = header
        /\ i + Len(body) <= Len(text)
        /\ SubSeq(text, i + 1, i + Len(body)) = body

\* C2: on the hybrid path, whether the rules call succeeded or failed, the
\* synthesized answer holds both headers, "Based on the rules:" followed by
\* the rules querier's answer (its error text when the provider failed) and
\* "Current data:" followed by the dynamic-data querier's answer.
C2_HybridBothHeaders ==
    (query_type = "hybrid" /\ pc \in {"wrap", "respond", "done"}) =>
        /\ IsText(response.answer)
        /\ Follows("Based on the rules: ", PyStr(rules_response.answer), response.answer.s)
        /\ Follows("Current data: ", PyStr(data_response.answer), response.answer.s)
        /\ \E i, j \in 1..Len(response.answer.s) :
              /\ i < j
              /\ response.answer.s[i] = "Based on the rules: "
              /\ response.answer.s[j] = "Current data: "
        /\ RulesFailed =>
              Follows("Based on the rules: ", <<"Error querying knowledge base: ">>,
                      response.answer.s)
        /\ Follows("MCP query result for: ", message, response.answer.s)

\* A hybrid request whose rules provider failed has been synthesized.
C2_Witness ==
    /\ query_type = "hybrid"
    /\ pc = "wrap"
    /\ RulesFailed
    /\ Len(response.answer.s) > 3

\* The rules provider failed: the call raised, or the reply is malformed (not
\* JSON, or without a text at content[0]['text']).
RulesProviderFailed ==
    /\ reply # NoReply
    /\ ~(/\ ~reply.raises
         /\ reply.valid
         /\ \E a \in AnswerTexts : reply.val = ClaudeBody(JStr(a)))
RulesQuerierInvoked == \E i \in 1..Len(invoked) : invoked[i] = "rules"

\* C3: whenever the rules querier was invoked and its provider failed in any
\* way (the call raised, or the reply is malformed), no exception reaches the
\* caller of process_message, and the ChatResponse it returns has a non-empty
\* response and an empty list of sources.
C3_RulesFailureNoSources ==
    (Returned /\ RulesQuerierInvoked /\ RulesProviderFailed) =>
        /\ chat.kind = "ok"
        /\ chat.response # <<>>
        /\ chat.sources = <<>>

\* C4: whenever the selected provider result has no answer or an empty one,
\* the response is the default answer; the response is never empty.
C4_DefaultOnEmptyAnswer ==
    Returned =>
        /\ ("answer" \notin DOMAIN response \/ response.answer = JStr(<<>>))
              => (chat.kind = "ok" /\ chat.response = DefaultAnswer.s)
        /\ chat.kind = "ok" => chat.response # <<>>

\* C5: process_message never raises past its own boundary: for every message
\* and every provider outcome, a reply whose extracted answer is not text
\* included, it returns a ChatResponse with a non-empty apology text, and
\* no error goes on to chat_endpoint, which so answers with success.
C5_NeverRaises ==
    Returned =>
        /\ chat.kind = "ok"
        /\ ~IsText(response.answer) => chat.response # <<>>
        /\ pc = "done" => http.status = 200

\* C6: on the hybrid path the two queriers overlap: the dynamic-data querier
\* has begun by the time the rules querier's remote call is over.
C6_QueriersOverlap ==
    (pc = "gather" /\ kbTask = "done") => mcpTask # "scheduled"

QuerierOf(intent) ==
    CASE intent = "rules" -> "rules"
      [] intent = "parts_or_schedule" -> "mcp"
      [] OTHER -> "general"

\* C7: a request whose intent is not hybrid invokes exactly one querier, the
\* one of its intent, and no other, and gets a ChatResponse whose response
\* and sources are that querier's answer and sources, unchanged.
C7_SingleQuerierUnchanged ==
    (pc = "done" /\ Classified /\ query_type # "hybrid") =>
        /\ invoked = <<QuerierOf(query_type)>>
        /\ chat.kind = "ok"
        /\ IsText(response.answer)
        /\ chat.response = response.answer.s
        /\ chat.sources = response.sources

\* process_message of the Lambda has returned
LambdaReturned == lpc \in {"respond", "done"} /\ rag_calls + fallback_calls > 0

\* C8: without a knowledge-base id retrieve_and_generate is never called and
\* the result is fallback_response's; with an id and a failed
\* retrieve_and_generate, fallback_response is called exactly once and its
\* result returned; in both cases process_message returns text.
C8_FallbackReturnsText ==
    LambdaReturned =>
        /\ env.KNOWLEDGE_BASE_ID = <<>> =>
              /\ rag_calls = 0
              /\ fallback_calls = 1
              /\ lresult = FallbackResult(ModelIdOf(env.MODEL_ARN), lreply)
        /\ (env.KNOWLEDGE_BASE_ID # <<>> /\ fallback_calls > 0) =>
              /\ rag_calls = 1
              /\ fallback_calls = 1
              /\ lresult = FallbackResult(ModelIdOf(env.MODEL_ARN), lreply)
        /\ fallback_calls > 0 => IsText(lresult)

\* C9: a request with missing or malformed input fields never fails: the
\* handler answers with a success status.
C9_MalformedInputSucceeds ==
    lpc = "done" => lout.statusCode = 200

\* fallback_response's invoke_model call returned a body that json.loads read
FallbackDecoded ==
    /\ LambdaReturned
    /\ lreply # NoReply
    /\ ~lreply.raises
    /\ lreply.valid
\* payload holds neither of the answer fields 'content' and 'completion'
NoKnownField(payload) ==
    /\ payload.t = "obj" =>
          (~HasKey(payload.o, "content") /\ ~HasKey(payload.o, "completion"))
    /\ payload.t = "arr" =>
          \A i \in 1..Len(payload.a) :
              payload.a[i] \notin {JStr(<<"content">>), JStr(<<"completion">>)}
\* MODEL_ARN makes fallback_response use the Nova Premier shape
NovaConfigured ==
    \/ HasFragment("nova-premier", env.MODEL_ARN)
    \/ (HasFragment("arn:aws:bedrock:", env.MODEL_ARN)
        /\ HasFragment("inference-profile", env.MODEL_ARN))
IsApology(v) ==
    /\ IsText(v)
    /\ Len(v.s) > 1
    /\ v.s[1] = "I apologize, but I'm having trouble processing your request right now. Error: "

\* C10 as claimed: whatever the model identifier, a decoded reply holding
\* none of the known answer fields comes back as the stringified payload.
C10_Original ==
    (FallbackDecoded /\ NoKnownField(lreply.val)) =>
        lresult = JStr(PyStr(lreply.val))

\* C10, amended: the reply is parsed by the shape the model identifier
\* selects. Under a nova-premier identifier a reply that is a JSON object or
\* array holding neither 'content' nor 'completion' comes back stringified,
\* a 'completion' without a non-empty 'content' comes back as it is, and a
\* bare number gives the apology text. Under any other identifier the result
\* is content[0]['text'], and a reply without it gives the apology text, not
\* the stringified payload.
C10_ParseByShape ==
    FallbackDecoded =>
        LET payload == lreply.val IN
        /\ (NovaConfigured /\ payload.t \in {"obj", "arr"} /\ NoKnownField(payload))
              => lresult = JStr(PyStr(payload))
        /\ (NovaConfigured /\ payload.t \in {"num", "null"}) => IsApology(lresult)
        /\ (NovaConfigured /\ payload.t = "obj" /\ HasKey(payload.o, "completion")
              /\ (~HasKey(payload.o, "content")
                  \/ Lookup(payload.o, "content") = JArr(<<>>)))
              => lresult = Lookup(payload.o, "completion")
        /\ Extractable(lreply) =>
              \E x \in {JStr(a) : a \in AnswerTexts} \cup {JNull, JNum(7)} :
                  payload = ClaudeBody(x) /\ lresult = x
        /\ (~NovaConfigured /\ ~Extractable(lreply)) => IsApology(lresult)

\* Under a nova-premier identifier, a reply with neither answer field came
\* back stringified.
C10_Witness ==
    /\ lpc = "done"
    /\ NovaConfigured
    /\ lreply = Body(JObj(<<KV("message", JStr(<<"busy">>))>>))
    /\ lresult = JStr(<<"{", "'", "message", "'", ": ", "'", "busy", "'", "}">>)

\* C12: for every hybrid request the sources of the synthesized result are
\* the rules querier's sources followed by the dynamic-data querier's
\* sources, nothing added, dropped or reordered: the rulebook label then the
\* sheets label when the rules querier read an answer from the reply, the
\* sheets label alone when the rules provider failed. The ChatResponse built
\* from the result carries the same list.
C12_HybridSourcesInOrder ==
    (query_type = "hybrid" /\ pc \in {"wrap", "respond", "done"}) =>
        /\ response.sources = rules_response.sources \o data_response.sources
        /\ data_response.sources = <<"Google Sheets via MCP">>
        /\ Extractable(reply) =>
              response.sources = <<"Spec3 Rulebook", "Google Sheets via MCP">>
        /\ RulesFailed => response.sources = <<"Google Sheets via MCP">>
        /\ (Returned /\ chat.kind = "ok") => chat.sources = response.sources

\* A hybrid request has been synthesized from a rules answer read from the
\* provider's reply, both source labels present.
C12_Witness ==
    /\ query_type = "hybrid"
    /\ pc = "wrap"
    /\ Extractable(reply)
    /\ Len(response.sources) = 2

\* The decoded body of the request the handler was given: the event's body,
\* read as JSON (the handler answered with success, so it is a JSON object).
RequestBody ==
    JsonLoads(IF event.hasBody THEN event.body ELSE JsonText(TRUE, JObj(<<>>))).v
\* The decoded body of the handler's response.
ResponseBody == JsonLoads(lout.body).v

\* C11: in every success response of the serverless handler, the session_id
\* of the response body is the value the request body gave for session_id,
\* unchanged (an empty text, a number or null included, and whatever the
\* message, the configuration or the provider's outcome), and is 'default'
\* when the request body holds no session_id. The session_id has no part in
\* the answer: the request sent to the provider does not hold it, and the
\* answer is what the provider's outcome gives for the message and the
\* configured model alone.
C11_SessionEcho ==
    (lpc = "done" /\ lout.statusCode = 200) =>
        /\ RequestBody.t = "obj"
        /\ ResponseBody.t = "obj"
        /\ HasKey(ResponseBody.o, "session_id")
        /\ HasKey(RequestBody.o, "session_id") =>
              Lookup(ResponseBody.o, "session_id") = Lookup(RequestBody.o, "session_id")
        /\ ~HasKey(RequestBody.o, "session_id") =>
              Lookup(ResponseBody.o, "session_id") = JStr(<<"default">>)
        /\ Lookup(ResponseBody.o, "response") = lresult
        /\ lreply # NoReply =>
              lresult = FallbackResult(ModelIdOf(env.MODEL_ARN), lreply)
        /\ lreply = NoReply =>
              \E r \in RagOutcomes(user_message) : OutputText(r) = Ok(lresult)

\* A request whose session_id holds a quote, a backslash and a non-ASCII
\* character, written with escapes, was answered with success after the
\* knowledge-base call had failed and the fallback had run.
C11_Witness ==
    /\ lpc = "done"
    /\ lout.statusCode = 200
    /\ rag_calls = 1
    /\ fallback_calls = 1
    /\ lsession = JStr(<<"a", "\"", "b", "\\", "é">>)
    /\ HasKey(ResponseBody.o, "session_id")
====
